---- MODULE Spec2Model ----
(***************************************************************************)
(* Model of log_analyzer.py: the log locator (find_most_recent_log), the   *)
(* line parser (parse_log), the aggregator (count_url), the statistics     *)
(* (count_url_stats), the report writer (write_report) and main, which is  *)
(* run NumRuns times against the same log directory.                       *)
(*                                                                         *)
(* Durations are integers in units of 10^-6 s, so that round(x, 5) is a    *)
(* real rounding (to a multiple of 10 units).  main is modelled as called  *)
(* with --config (without it line 207 reads an unbound local).             *)
(***************************************************************************)
EXTENDS Integers, Sequences, FiniteSets, TLC

\* ---------------------------------------------------------------- bounds
MaxFiles == 2
MaxLogLines == 2
MaxLines == 6
NumRuns == 2

\* ------------------------------------------------------------- optionals
\* Python's None / an unbound local is the empty tuple, a value v is <<v>>.
None == <<>>
Some(v) == <<v>>

\* ------------------------------------------------------- directory names
\* A directory entry: the text before the 8 digits, the digits (as the
\* number they spell), and the extension after the separator.
PREFIX == "nginx-access-ui.log-"

FileName(prefix, digits, ext) == [prefix |-> prefix, digits |-> digits, ext |-> ext]

FileNames ==
    { FileName(PREFIX, 20170629, "gz"),
      FileName(PREFIX, 20170630, "log"),
      FileName(PREFIX, 20170631, "gz"),
      FileName(PREFIX, 20170630, "bz2") }

\* LOG_FILENAME_PATTERN.search(file): None, or the groups (date, extension).
LOG_FILENAME_PATTERN(file) ==
    IF file.prefix = PREFIX /\ file.ext \in {"gz", "log"}
    THEN Some([date |-> file.digits, extension |-> file.ext])
    ELSE None

IsLeap(y) == (y % 4 = 0 /\ y % 100 # 0) \/ y % 400 = 0

DaysIn(y, m) ==
    IF m = 2 THEN (IF IsLeap(y) THEN 29 ELSE 28)
    ELSE IF m \in {4, 6, 9, 11} THEN 30 ELSE 31

\* dt.datetime.strptime(date, "%Y%m%d"): <<y, m, d>>, or None for ValueError.
strptime(digits) ==
    LET y == digits \div 10000
        m == (digits \div 100) % 100
        d == digits % 100
    IN IF y >= 1 /\ m >= 1 /\ m <= 12 /\ d >= 1 /\ d <= DaysIn(y, m)
       THEN Some(<<y, m, d>>)
       ELSE None

\* datetime comparison a > b
DateGreater(a, b) ==
    \/ a[1] > b[1]
    \/ a[1] = b[1] /\ a[2] > b[2]
    \/ a[1] = b[1] /\ a[2] = b[2] /\ a[3] > b[3]

\* log.date.strftime("report-%Y.%m.%d.html") joined to REPORT_DIR
ReportPath(date) == <<"report", date[1], date[2], date[3], "html">>

LogFile(path, date, extension) == [path |-> path, date |-> date, extension |-> extension]

\* One pass of the body of the for loop of find_most_recent_log over `file`,
\* from the locals st = [most_recent_date, most_recent_file, most_recent_ext,
\* parsed_date].  The result is [exc, ret]: exc names the exception raised
\* (or "none"); ret is the tuple returned on line 92.
LoopBody(file, st) ==
    LET search == LOG_FILENAME_PATTERN(file)
    IN IF search = None
       THEN [exc |-> "AttributeError", ret |-> None]
       ELSE LET date == search[1].date
                extension == search[1].extension
                parsed == strptime(date)
                \* except ValueError: parsed_date keeps its former binding
                parsed_date == IF parsed # None THEN parsed ELSE st.parsed_date
            IN IF parsed_date = None
               THEN \* line 84 or line 85 reads the unbound parsed_date
                    [exc |-> "UnboundLocalError", ret |-> None]
               ELSE LET take == \/ st.most_recent_date = None
                                \/ DateGreater(parsed_date[1], st.most_recent_date[1])
                        most_recent_date == IF take THEN parsed_date ELSE st.most_recent_date
                        most_recent_file == IF take THEN Some(file) ELSE st.most_recent_file
                        most_recent_ext == IF take THEN Some(extension) ELSE st.most_recent_ext
                    IN [exc |-> "none",
                        ret |-> Some(LogFile(most_recent_file[1], most_recent_date[1],
                                             most_recent_ext[1]))]

\* find_most_recent_log for an existing directory: the return on line 92 is
\* inside the loop, so the function returns at the end of the first pass;
\* with an empty listing the loop is not entered and the result is None.
find_most_recent_log(files) ==
    IF Len(files) = 0
    THEN [exc |-> "none", ret |-> None]
    ELSE LoopBody(files[1],
                  [most_recent_date |-> None, most_recent_file |-> None,
                   most_recent_ext |-> None, parsed_date |-> None])

\* ------------------------------------------------------------- log lines
\* A decoded line: whether LOG_FORMAT_PATTERN matches it, the tokens of the
\* quoted request segment (group 1 split on whitespace) and the duration
\* field (group 2, a well-formed decimal, in units of 10^-6 s).
Line(shape, request, time) == [shape |-> shape, request |-> request, time |-> time]

Urls == {"/a", "/b"}

Times == {0, 6, 10}

Lines ==
    { Line(FALSE, <<>>, 0) }
    \cup { Line(TRUE, <<"GET", u, "HTTP/1.1">>, t) : u \in Urls, t \in Times }
    \cup { Line(TRUE, <<"GET", "/c", "HTTP/1.1">>, 10) }
    \cup { Line(TRUE, <<"GET", "/a">>, 6) }

LogLine(u, time) == [url |-> u, time |-> time]

\* One pass of the body of the for loop of parse_log over `line`, with the
\* generator's local `url` as left by the earlier passes (None = unbound).
\* Result: what the generator does (yield None, yield a LogLine, or raise)
\* and the new binding of `url`.
ParseLine(line, gen_url) ==
    IF ~line.shape
    THEN [exc |-> "none", yield |-> None, url |-> gen_url]
    ELSE LET unpacked == Len(line.request) = 3
             \* except ValueError: url keeps its former binding
             new_url == IF unpacked THEN Some(line.request[2]) ELSE gen_url
         IN IF new_url = None
            THEN [exc |-> "UnboundLocalError", yield |-> None, url |-> new_url]
            ELSE [exc |-> "none", yield |-> Some(LogLine(new_url[1], line.time)),
                  url |-> new_url]

\* requests_by_url is a defaultdict(list); a dict keeps insertion order, so
\* it is a sequence of [url, times] entries with distinct urls.
KeyIndex(d, u) ==
    IF \E i \in 1..Len(d) : d[i].url = u
    THEN CHOOSE i \in 1..Len(d) : d[i].url = u
    ELSE 0

\* requests_by_url[u].append(time)
DictAppend(d, u, time) ==
    IF KeyIndex(d, u) = 0
    THEN Append(d, [url |-> u, times |-> <<time>>])
    ELSE [d EXCEPT ![KeyIndex(d, u)].times = Append(@, time)]

ERROR_THRESHOLD_NUM == 1
ERROR_THRESHOLD_DEN == 5

\* invalid_lines / (invalid_lines + parsed_lines) > error_threshold, for
\* invalid_lines + parsed_lines > 0 and error_threshold = 0.2 = 1/5
ThresholdExceeded(invalid, parsed) ==
    invalid * ERROR_THRESHOLD_DEN > ERROR_THRESHOLD_NUM * (invalid + parsed)

\* ------------------------------------------------------------ statistics
RECURSIVE SeqSum(_)
SeqSum(s) == IF s = <<>> THEN 0 ELSE s[1] + SeqSum(Tail(s))

\* the integer nearest to n / d (n >= 0, d > 0), a tie going to the even one
RoundHalfEven(n, d) ==
    LET q == n \div d
        r == n % d
    IN IF 2 * r < d THEN q
       ELSE IF 2 * r > d THEN q + 1
       ELSE IF q % 2 = 0 THEN q ELSE q + 1

\* round(n / d, 5) of a duration n / d in units of 10^-6 s
Round5(n, d) == 10 * RoundHalfEven(n, 10 * d)

\* round(100 * n / d, 5), the percentage in units of 10^-5 percent
Percent5(n, d) == RoundHalfEven(100 * n * 100000, d)

\* sorted(times): ascending
InsertAsc(x, s) ==
    LET k == Cardinality({i \in 1..Len(s) : s[i] <= x})
    IN SubSeq(s, 1, k) \o <<x>> \o SubSeq(s, k + 1, Len(s))

RECURSIVE SortAsc(_)
SortAsc(s) ==
    IF s = <<>> THEN <<>>
    ELSE InsertAsc(s[Len(s)], SortAsc(SubSeq(s, 1, Len(s) - 1)))

\* statistics.median(times) as the fraction [n, d]
Median(times) ==
    LET s == SortAsc(times)
        n == Len(s)
    IN IF n % 2 = 1
       THEN [n |-> s[(n + 1) \div 2], d |-> 1]
       ELSE [n |-> s[n \div 2] + s[n \div 2 + 1], d |-> 2]

\* The LogStats tuple of one url (lines 156-173); total_time > 0.
LogStats(entry, n_urls, total_time) ==
    LET count == Len(entry.times)
        time_sum == Round5(SeqSum(entry.times), 1)
        med == Median(entry.times)
    IN [url |-> entry.url,
        count |-> count,
        count_perc |-> Percent5(count, n_urls),
        time_sum |-> time_sum,
        time_perc |-> Percent5(time_sum, total_time),
        time_avg |-> Round5(time_sum, count),
        time_max |-> SortAsc(entry.times)[count],
        time_med |-> Round5(med.n, med.d)]

\* A sort that puts x before the records with the same key.
InsertDescUnstable(x, s) ==
    LET k == Cardinality({i \in 1..Len(s) : s[i].time_sum > x.time_sum})
    IN SubSeq(s, 1, k) \o <<x>> \o SubSeq(s, k + 1, Len(s))

\* Where sorted(..., reverse=True) puts x among the sorted records s: the
\* sort is stable, so x (which came later in the input) goes after every
\* record whose key is greater than or equal to its own.
InsertDesc(x, s) ==
    LET k == Cardinality({i \in 1..Len(s) : s[i].time_sum >= x.time_sum})
    IN SubSeq(s, 1, k) \o <<x>> \o SubSeq(s, k + 1, Len(s))

\* sorted(url_stats, key=attrgetter("time_sum"), reverse=True)
RECURSIVE SortedByTimeSumDesc(_)
SortedByTimeSumDesc(s) ==
    IF s = <<>> THEN <<>>
    ELSE InsertDesc(s[Len(s)], SortedByTimeSumDesc(SubSeq(s, 1, Len(s) - 1)))

\* count_url_stats: [exc, ret]; line 159 divides by total_requests_time
count_url_stats(d, total_time) ==
    IF Len(d) > 0 /\ total_time = 0
    THEN [exc |-> "ZeroDivisionError", ret |-> <<>>]
    ELSE [exc |-> "none",
          ret |-> SortedByTimeSumDesc([i \in 1..Len(d) |-> LogStats(d[i], Len(d), total_time)])]

\* render_template: the template text with table_json substituted
TEMPLATE == "report.html"

render_template(stats) == <<TEMPLATE>> \o stats

\* ----------------------------------------------------------------- state
VARIABLES
    log_dir_exists,       \* os.path.isdir(config["LOG_DIR"])
    listing,              \* os.listdir(LOG_DIR), in the order it enumerates
    logLines,             \* the lines of the log file the locator selects
    report_dir_exists,    \* os.path.isdir(config["REPORT_DIR"])
    reports,              \* REPORT_DIR: report path -> None (absent) or Some(content)
    run,                  \* which run of main this is
    pc,                   \* where the run is
    exc,                  \* the exception that ended the run, "none" if none
    log,                  \* main's local log: None or Some(LogFile)
    parsed_lines,         \* count_url locals
    invalid_lines,
    total_requests_time,
    requests_by_url,
    url,                  \* parse_log's local url: None while unbound
    lines_decoded,        \* lines parse_log has decoded (line 104)
    url_stat,             \* main's local url_stat
    rendered_template,    \* main's local rendered_template
    tmp_file,             \* what the temporary file holds on disk
    writes,               \* how often a report path was opened for writing
    history               \* how each finished run ended

vars == <<log_dir_exists, listing, logLines, report_dir_exists, reports, run, pc, exc,
          log, parsed_lines, invalid_lines, total_requests_time, requests_by_url, url,
          lines_decoded, url_stat, rendered_template, tmp_file, writes, history>>

directory == <<log_dir_exists, listing, logLines>>
count_url_locals == <<parsed_lines, invalid_lines, total_requests_time, requests_by_url,
                      url, lines_decoded>>
report_locals == <<url_stat, rendered_template, tmp_file>>

RECURSIVE SeqsUpTo(_, _)
SeqsUpTo(S, n) ==
    IF n = 0 THEN {<<>>}
    ELSE LET shorter == SeqsUpTo(S, n - 1)
         IN shorter \cup {Append(s, x) : s \in {t \in shorter : Len(t) = n - 1}, x \in S}

\* the listings of a directory: no name twice, any order
Listings ==
    {s \in SeqsUpTo(FileNames, MaxFiles) : \A i, j \in 1..Len(s) : i # j => s[i] # s[j]}

ValidDates == {strptime(f.digits)[1] : f \in {g \in FileNames : strptime(g.digits) # None}}

ReportPaths == {ReportPath(d) : d \in ValidDates}

\* A run that never finds the report of an earlier run.
ExistsNever(path) == FALSE

\* os.path.exists(report_path)
Exists(path) == reports[path] # None

\* the locals of main before it calls anything
FreshLocals ==
    /\ exc = "none"
    /\ log = None
    /\ parsed_lines = 0
    /\ invalid_lines = 0
    /\ total_requests_time = 0
    /\ requests_by_url = <<>>
    /\ url = None
    /\ lines_decoded = 0
    /\ url_stat = <<>>
    /\ rendered_template = <<>>
    /\ tmp_file = <<>>

\* main is about to start for the first time; no report directory yet
Init ==
    /\ log_dir_exists \in BOOLEAN
    /\ listing \in (IF log_dir_exists THEN Listings ELSE {<<>>})
    /\ logLines \in (IF listing = <<>> THEN {<<>>} ELSE SeqsUpTo(Lines, MaxLogLines))
    /\ report_dir_exists = FALSE
    /\ reports = [p \in ReportPaths |-> None]
    /\ run = 1
    /\ pc = "main"
    /\ writes = 0
    /\ history = <<>>
    /\ FreshLocals

\* the run ends: by the exception e (caught and logged on line 234 or 241,
\* or a SystemExit), or normally with e = "none"; outcome says where
EndRun(e, outcome) ==
    /\ pc' = "done"
    /\ exc' = e
    /\ history' = Append(history, outcome)

\* main, lines 203-214: locate the log
FindLog ==
    /\ pc = "main"
    /\ LET r == find_most_recent_log(listing)
       IN IF ~log_dir_exists
          THEN EndRun("SystemExit", "no directory") /\ UNCHANGED log
          ELSE IF r.exc # "none"
          THEN EndRun(r.exc, "find_most_recent_log raised") /\ UNCHANGED log
          ELSE IF r.ret = None
          THEN EndRun("SystemExit", "no log") /\ UNCHANGED log
          ELSE /\ log' = r.ret
               /\ pc' = "report_path"
               /\ UNCHANGED <<exc, history>>
    /\ UNCHANGED <<directory, report_dir_exists, reports, run, count_url_locals,
                   report_locals, writes>>

\* main, lines 216-227: the report path, the report directory, the skip
CheckReport ==
    /\ pc = "report_path"
    /\ report_dir_exists' = TRUE
    /\ IF Exists(ReportPath(log[1].date))
       THEN EndRun("SystemExit", "skipped")
       ELSE pc' = "count_url" /\ UNCHANGED <<exc, history>>
    /\ UNCHANGED <<directory, reports, run, log, count_url_locals, report_locals, writes>>

\* count_url, lines 131-139, one pass of the loop: parse_log decodes and
\* parses `line`, the loop body folds what it yields.
CountUrlIteration(line) ==
    LET p == ParseLine(line, url)
    IN /\ lines_decoded' = lines_decoded + 1
       /\ url' = p.url
       /\ IF p.exc # "none"
          THEN /\ EndRun(p.exc, "parse_log raised")
               /\ UNCHANGED <<parsed_lines, invalid_lines, total_requests_time,
                              requests_by_url>>
          ELSE IF p.yield = None
          THEN /\ invalid_lines' = invalid_lines + 1
               /\ UNCHANGED <<parsed_lines, total_requests_time, requests_by_url,
                              pc, exc, history>>
          ELSE /\ parsed_lines' = parsed_lines + 1
               /\ total_requests_time' = total_requests_time + p.yield[1].time
               /\ requests_by_url' = DictAppend(requests_by_url, p.yield[1].url,
                                                p.yield[1].time)
               /\ UNCHANGED <<invalid_lines, pc, exc, history>>
       /\ UNCHANGED <<directory, report_dir_exists, reports, run, log, report_locals,
                      writes>>

\* count_url, lines 141-144, after the stream is exhausted
CountUrlFinish ==
    /\ IF invalid_lines + parsed_lines = 0
       THEN EndRun("ZeroDivisionError", "count_url raised")
       ELSE IF ThresholdExceeded(invalid_lines, parsed_lines)
       THEN EndRun("ValueError", "count_url raised")
       ELSE pc' = "count_url_stats" /\ UNCHANGED <<exc, history>>
    /\ UNCHANGED <<directory, report_dir_exists, reports, run, log, count_url_locals,
                   report_locals, writes>>

\* the next line of the selected log file
ReadLine ==
    /\ pc = "count_url"
    /\ lines_decoded < Len(logLines)
    /\ CountUrlIteration(logLines[lines_decoded + 1])

EndOfLog ==
    /\ pc = "count_url"
    /\ lines_decoded = Len(logLines)
    /\ CountUrlFinish

\* main, line 228
CountUrlStats ==
    /\ pc = "count_url_stats"
    /\ LET r == count_url_stats(requests_by_url, total_requests_time)
       IN IF r.exc # "none"
          THEN EndRun(r.exc, "count_url_stats raised") /\ UNCHANGED url_stat
          ELSE /\ url_stat' = r.ret
               /\ pc' = "render_template"
               /\ UNCHANGED <<exc, history>>
    /\ UNCHANGED <<directory, report_dir_exists, reports, run, log, count_url_locals,
                   rendered_template, tmp_file, writes>>

\* main, line 229
RenderTemplate ==
    /\ pc = "render_template"
    /\ rendered_template' = render_template(url_stat)
    /\ pc' = "write_report"
    /\ UNCHANGED <<directory, report_dir_exists, reports, run, exc, log, count_url_locals,
                   url_stat, tmp_file, writes, history>>

\* write_report, lines 196-198: the content is written through a buffered
\* writer that is still open; it has reached the temporary file only if the
\* writer wrote it through (it did not fit the buffer).
WriteTmp ==
    /\ pc = "write_report"
    /\ tmp_file' \in {<<>>, rendered_template}
    /\ pc' = "open_report"
    /\ UNCHANGED <<directory, report_dir_exists, reports, run, exc, log, count_url_locals,
                   url_stat, rendered_template, writes, history>>

\* write_report, line 199: open(report_path, 'wb') creates the file, empty
OpenReport ==
    /\ pc = "open_report"
    /\ reports' = [reports EXCEPT ![ReportPath(log[1].date)] = Some(<<>>)]
    /\ writes' = writes + 1
    /\ pc' = "copyfileobj"
    /\ UNCHANGED <<directory, report_dir_exists, run, exc, log, count_url_locals,
                   report_locals, history>>

\* write_report, line 200 and the two with-exits: what the temporary file
\* holds is copied to the report, then the buffered writer is closed.
CopyReport ==
    /\ pc = "copyfileobj"
    /\ reports' = [reports EXCEPT ![ReportPath(log[1].date)] = Some(tmp_file)]
    /\ tmp_file' = rendered_template
    /\ EndRun("none", "written")
    /\ UNCHANGED <<directory, report_dir_exists, run, log, count_url_locals,
                   url_stat, rendered_template, writes>>

\* the script is started again on the same directories
NextRun ==
    /\ pc = "done"
    /\ run < NumRuns
    /\ run' = run + 1
    /\ pc' = "main"
    /\ exc' = "none"
    /\ log' = None
    /\ parsed_lines' = 0
    /\ invalid_lines' = 0
    /\ total_requests_time' = 0
    /\ requests_by_url' = <<>>
    /\ url' = None
    /\ lines_decoded' = 0
    /\ url_stat' = <<>>
    /\ rendered_template' = <<>>
    /\ tmp_file' = <<>>
    /\ UNCHANGED <<directory, report_dir_exists, reports, writes, history>>

Next ==
    \/ FindLog
    \/ CheckReport
    \/ ReadLine
    \/ EndOfLog
    \/ CountUrlStats
    \/ RenderTemplate
    \/ WriteTmp
    \/ OpenReport
    \/ CopyReport
    \/ NextRun

Spec == Init /\ [][Next]_vars

\* ------------------------------------------- count_url on any line stream
\* count_url has just been called on the selected log, whose lines are drawn
\* one by one as parse_log reads them (up to MaxLines of them); logLines is
\* not used, the file is whatever sequence of lines was drawn.
InitCountUrl ==
    /\ log_dir_exists = TRUE
    /\ listing = <<FileName(PREFIX, 20170630, "log")>>
    /\ logLines = <<>>
    /\ report_dir_exists = TRUE
    /\ reports = [p \in ReportPaths |-> None]
    /\ run = 1
    /\ pc = "count_url"
    /\ exc = "none"
    /\ log = find_most_recent_log(listing).ret
    /\ parsed_lines = 0
    /\ invalid_lines = 0
    /\ total_requests_time = 0
    /\ requests_by_url = <<>>
    /\ url = None
    /\ lines_decoded = 0
    /\ url_stat = <<>>
    /\ rendered_template = <<>>
    /\ tmp_file = <<>>
    /\ writes = 0
    /\ history = <<>>

DrawLine ==
    /\ pc = "count_url"
    /\ lines_decoded < MaxLines
    /\ \E line \in Lines : CountUrlIteration(line)

EndOfStream ==
    /\ pc = "count_url"
    /\ CountUrlFinish

NextCountUrl ==
    \/ DrawLine
    \/ EndOfStream
    \/ CountUrlStats
    \/ RenderTemplate
    \/ WriteTmp
    \/ OpenReport
    \/ CopyReport

SpecCountUrl == InitCountUrl /\ [][NextCountUrl]_vars

\* ---------------------------------------------------------------- claims
\* how the current run ended, "running" while it has not
LastOutcome == IF Len(history) >= run THEN history[run] ELSE "running"

\* find_most_recent_log has been called and has returned or raised
Located == log_dir_exists /\ pc # "main"

Matches(file) == LOG_FILENAME_PATTERN(file) # None

ValidDate(file) == strptime(file.digits) # None

\* count_url has returned or raised in the current run
CountUrlOver ==
    \/ pc \in {"count_url_stats", "render_template", "write_report", "open_report",
               "copyfileobj"}
    \/ pc = "done" /\ LastOutcome \in {"parse_log raised", "count_url raised",
                                       "count_url_stats raised", "written"}

\* count_url has been entered in the current run
CountUrlEntered == pc = "count_url" \/ CountUrlOver

\* count_url_stats has returned its list in the current run
StatsReturned ==
    \/ pc \in {"render_template", "write_report", "open_report", "copyfileobj"}
    \/ pc = "done" /\ LastOutcome = "written"

\* C1: for a non-empty listing of matching names with valid dates,
\* find_most_recent_log returns a file of the listing whose date no other
\* file's date exceeds, whatever the order of the listing.
C1_MostRecentOfAll ==
    (/\ Located
     /\ Len(listing) > 0
     /\ \A i \in 1..Len(listing) : Matches(listing[i]) /\ ValidDate(listing[i]))
    => /\ log # None
       /\ \E i \in 1..Len(listing) :
             /\ log[1].path = listing[i]
             /\ log[1].date = strptime(listing[i].digits)[1]
       /\ \A i \in 1..Len(listing) :
             ~DateGreater(strptime(listing[i].digits)[1], log[1].date)

\* C2: when the directory exists and no name in it matches the pattern,
\* find_most_recent_log returns None without raising (main exits with "no
\* log"), and a non-matching name never makes the scan raise.
C2_NoLogFound ==
    /\ (Located /\ \A i \in 1..Len(listing) : ~Matches(listing[i]))
       => log = None /\ LastOutcome = "no log"
    /\ Located => LastOutcome # "find_most_recent_log raised" \/ exc # "AttributeError"

\* C3: a matching name whose digits are no calendar date is skipped: the
\* scan does not raise on the unset parsed date and never selects the file.
C3_InvalidDateSkipped ==
    (Located /\ \E i \in 1..Len(listing) : Matches(listing[i]) /\ ~ValidDate(listing[i]))
    => /\ ~(LastOutcome = "find_most_recent_log raised" /\ exc = "UnboundLocalError")
       /\ log # None => ValidDate(log[1].path)

\* C4: once the whole stream is consumed, count_url fails if and only if
\* unparsed / (unparsed + parsed) > 0.2 (the ratio of an empty stream being
\* 0), and a failing run writes no report.
C4_FailsIffOverThreshold ==
    (CountUrlOver /\ LastOutcome # "parse_log raised")
    => /\ (LastOutcome = "count_url raised")
            <=> (5 * invalid_lines > invalid_lines + parsed_lines)
       /\ LastOutcome = "count_url raised" => \A p \in ReportPaths : reports[p] = None

\* C5: on a log of zero lines count_url raises nothing and returns an empty
\* mapping and a total duration of 0.
C5_EmptyLogSucceeds ==
    (CountUrlOver /\ lines_decoded = 0)
    => /\ LastOutcome # "count_url raised"
       /\ requests_by_url = <<>>
       /\ total_requests_time = 0

\* the lines among the first n of the log that are to count as unparsed:
\* the pattern does not match, or the request has not three tokens
UnparsedAmong(n) ==
    {i \in 1..n : ~logLines[i].shape \/ Len(logLines[i].request) # 3}

RECURSIVE TimeOfParsed(_)
TimeOfParsed(n) ==
    IF n = 0 THEN 0
    ELSE TimeOfParsed(n - 1) + (IF n \in UnparsedAmong(n) THEN 0 ELSE logLines[n].time)

\* C6: a line that matches the pattern but whose request has not three
\* tokens is yielded as unparsed: parse_log does not raise, the line is
\* counted in invalid_lines and adds no duration.
C6_WrongTokenCountUnparsed ==
    CountUrlEntered
    => /\ LastOutcome # "parse_log raised"
       /\ invalid_lines = Cardinality(UnparsedAmong(lines_decoded))
       /\ total_requests_time = TimeOfParsed(lines_decoded)

\* C7: whenever write_report is running or has run, the file at the report
\* path is absent or holds the complete rendered report.
C7_ReportNeverPartial ==
    (\/ pc \in {"write_report", "open_report", "copyfileobj"}
     \/ pc = "done" /\ LastOutcome = "written")
    => reports[ReportPath(log[1].date)] \in {None, Some(rendered_template)}

\* C8: once a first run has written the report, no later run on the same
\* directory changes any report: every later run ends as skipped, the report
\* path was opened for writing exactly once, and exactly one report exists.
C8_SecondRunSkips ==
    /\ [](  (Len(history) >= 1 /\ history[1] = "written")
            => /\ \A i \in 2..Len(history) : history[i] = "skipped"
               /\ writes = 1
               /\ Cardinality({p \in ReportPaths : reports[p] # None}) = 1
               /\ log # None => reports[ReportPath(log[1].date)] # None)
    /\ [][ (Len(history) >= 1 /\ history[1] = "written") => reports' = reports ]_vars

C8_Witness ==
    /\ Len(history) >= 2
    /\ history[1] = "written"
    /\ history[2] = "skipped"
    /\ pc = "done"

\* C9: parsed_lines + invalid_lines is the number of lines decoded so far,
\* at every point of the fold and at its end.
C9_CountsAddUp ==
    CountUrlEntered => parsed_lines + invalid_lines = lines_decoded

\* C10: the list count_url_stats returns has one record per distinct url,
\* is ordered by time_sum descending, and records with equal time_sum are
\* in the order their urls were inserted into requests_by_url.
C10_RankedStable ==
    StatsReturned
    => /\ Len(url_stat) = Len(requests_by_url)
       /\ \A k \in 1..Len(requests_by_url) :
             Cardinality({i \in 1..Len(url_stat) : url_stat[i].url = requests_by_url[k].url}) = 1
       /\ \A i \in 1..Len(url_stat) - 1 : url_stat[i].time_sum >= url_stat[i + 1].time_sum
       /\ \A i, j \in 1..Len(url_stat) :
             (i < j /\ url_stat[i].time_sum = url_stat[j].time_sum)
             => KeyIndex(requests_by_url, url_stat[i].url)
                  < KeyIndex(requests_by_url, url_stat[j].url)

C10_Witness ==
    /\ pc = "render_template"
    /\ Len(url_stat) = 3
    /\ url_stat[1].time_sum > url_stat[2].time_sum
    /\ url_stat[2].time_sum = url_stat[3].time_sum
    /\ url_stat[1].url # requests_by_url[1].url
    /\ \E i, j \in 1..3 :
          /\ i < j
          /\ requests_by_url[i].url = url_stat[2].url
          /\ requests_by_url[j].url = url_stat[3].url
          /\ SeqSum(requests_by_url[i].times) < SeqSum(requests_by_url[j].times)

====
